---------------------------- MODULE Spec2Model ----------------------------
(***************************************************************************)
(* A model of the image-handling layer of the Webpage repository:          *)
(*   - the path utilities getImagePath / getOptimizedImagePath,            *)
(*   - the OptimizedImage React component,                                 *)
(*   - the random image helpers,                                           *)
(*   - the batch preloader preloadImages,                                  *)
(*   - the pre-deployment script scripts/validate-images.js.               *)
(* Each unit has its own specification (SpecPath, SpecImage, SpecRandom,   *)
(* SpecPreload, SpecScript); the variables of the other units rest at      *)
(* their "off" value meanwhile.                                            *)
(*                                                                         *)
(* A path string is a sequence of atoms: the atom "/" is the slash         *)
(* character, every other atom is a run of non-slash characters (a         *)
(* segment name such as "images" or "a").                                  *)
(***************************************************************************)
EXTENDS Integers, Sequences, FiniteSets, TLC

VARIABLES
  \* ---- build environment and the path utilities
  DEV,            \* import.meta.env.DEV of the running build
  lastDev,        \* the last path-utility call made by a development build
  lastProd,       \* the last path-utility call made by a production build
  \* ---- OptimizedImage: props
  src,            \* the src prop
  fallbackSrc,    \* the fallbackSrc prop, or Undefined
  hasOnLoad,      \* whether an onLoad callback is supplied
  hasOnError,     \* whether an onError callback is supplied
  \* ---- OptimizedImage: component state and the img element
  hasError,       \* useState(false)
  isLoading,      \* useState(true)
  renderedSrc,    \* finalSrc of the last committed render (the src React gave the img)
  domSrc,         \* the img element's src (React's, or written by handleImageError)
  imgStatus,      \* "loading" | "loaded" | "failed": the fetch of domSrc
  loadEvents,     \* load events the img element has fired
  errorEvents,    \* error events the img element has fired
  onLoadCalls,    \* invocations of the onLoad callback
  onErrorCalls,   \* invocations of the onError callback
  blueWrites,     \* times handleImageError wrote the blue placeholder to the img
  \* ---- getRandomImageSet(count)
  count,          \* the argument
  selected,       \* const selected: string[]
  available,      \* const available = [...randomImages]
  loopIndex,      \* the loop variable i
  randomPc,       \* "loop" | "returned"
  \* ---- preloadImages(imagePaths)
  imagePaths,     \* the argument
  imgState,       \* per Image object: "pending" | "loaded" | "failed"
  promiseAll,     \* Promise.all(...): "pending" | "fulfilled" | "rejected"
  rejectReason,   \* the src named by the Error that rejected Promise.all
  preloadPromise, \* the promise preloadImages returned
  consoleLog,     \* what preloadImages logged
  \* ---- scripts/validate-images.js: main()
  mainPc,         \* "scan" | "report" | "exited"
  filesScanned,   \* source files scanDirectory has come across
  imageRefs,      \* the Set imageRefs, in insertion order
  publicDir,      \* the entries that exist under <projectRoot>/public
  validation,     \* validateImages' result { missing, existing }
  report,         \* the three counts generateReport printed
  threw,          \* whether the catch block of main ran
  exitCode        \* the status given to process.exit

pathVars == <<DEV, lastDev, lastProd>>
imagePropVars == <<src, fallbackSrc, hasOnLoad, hasOnError>>
imageVars == <<src, fallbackSrc, hasOnLoad, hasOnError, hasError, isLoading,
               renderedSrc, domSrc, imgStatus, loadEvents, errorEvents,
               onLoadCalls, onErrorCalls, blueWrites>>
randomVars == <<count, selected, available, loopIndex, randomPc>>
preloadVars == <<imagePaths, imgState, promiseAll, rejectReason, preloadPromise,
                 consoleLog>>
scriptVars == <<mainPc, filesScanned, imageRefs, publicDir, validation, report,
                threw, exitCode>>
vars == <<pathVars, imageVars, randomVars, preloadVars, scriptVars>>

\* the variables an action of one unit leaves alone
notPathVars == <<imageVars, randomVars, preloadVars, scriptVars>>
notImageVars == <<pathVars, randomVars, preloadVars, scriptVars>>
notRandomVars == <<pathVars, imageVars, preloadVars, scriptVars>>
notPreloadVars == <<pathVars, imageVars, randomVars, scriptVars>>
notScriptVars == <<pathVars, imageVars, randomVars, preloadVars>>

-----------------------------------------------------------------------------
(* Bounds *)
MaxPathLen == 2
MaxEvents == 3
MaxCount == 2
MaxImages == 3
MaxFiles == 2
MaxMatches == 2

(* Strings *)
PathAtoms == {"/", "a", "b"}
SeqsUpTo(S, n) == UNION {[1..k -> S] : k \in 0..n}
Paths == SeqsUpTo(PathAtoms, MaxPathLen)

\* String.prototype.startsWith for a one-character prefix
startsWith(path, ch) == Len(path) > 0 /\ path[1] = ch

-----------------------------------------------------------------------------
(* randomImages.ts: getImagePath *)
getImagePath_AlwaysPrepends(path) == <<"/">> \o path

getImagePath(path) ==
  LET cleanPath == IF startsWith(path, "/") THEN path ELSE <<"/">> \o path
  IN  cleanPath

\* what getImagePath writes to the console
getImagePathLog(path) ==
  IF DEV THEN <<getImagePath(path)>> ELSE <<>>

(* imageValidation.ts: getOptimizedImagePath *)
basePath_PerEnvironment == IF DEV THEN <<>> ELSE <<"/", "Webpage">>

basePath == <<>>

getOptimizedImagePath(path) ==
  LET fullPath == IF startsWith(path, "/")
                  THEN basePath \o path
                  ELSE basePath \o <<"/">> \o path
  IN  fullPath

getOptimizedImagePathLog(path) ==
  IF DEV THEN <<getOptimizedImagePath(path)>> ELSE <<>>

-----------------------------------------------------------------------------
(* The path utilities called by a build *)
NoCall == [fn |-> "none"]

Record(call) ==
  IF DEV THEN lastDev' = call /\ UNCHANGED lastProd
         ELSE lastProd' = call /\ UNCHANGED lastDev

CallGetImagePath ==
  \E path \in Paths :
    /\ Record([fn |-> "getImagePath", path |-> path,
               result |-> getImagePath(path),
               logged |-> getImagePathLog(path)])
    /\ UNCHANGED <<DEV, notPathVars>>

CallGetOptimizedImagePath ==
  \E path \in Paths :
    /\ Record([fn |-> "getOptimizedImagePath", path |-> path,
               result |-> getOptimizedImagePath(path),
               logged |-> getOptimizedImagePathLog(path)])
    /\ UNCHANGED <<DEV, notPathVars>>

\* the results of earlier calls: randomImages holds getImagePath's results,
\* and a component given one of them as src hands it to getOptimizedImagePath
EarlierResults == {call.result : call \in {lastDev, lastProd} \ {NoCall}}

\* getImagePath applied to the result of an earlier call
ReapplyGetImagePath ==
  \E path \in EarlierResults :
    /\ Record([fn |-> "getImagePath", path |-> path,
               result |-> getImagePath(path),
               logged |-> getImagePathLog(path)])
    /\ UNCHANGED <<DEV, notPathVars>>

\* getOptimizedImagePath applied to the result of an earlier call
ReapplyGetOptimizedImagePath ==
  \E path \in EarlierResults :
    /\ Record([fn |-> "getOptimizedImagePath", path |-> path,
               result |-> getOptimizedImagePath(path),
               logged |-> getOptimizedImagePathLog(path)])
    /\ UNCHANGED <<DEV, notPathVars>>

\* the same sources built for the other environment (vite dev / vite build)
SwitchBuild ==
  /\ DEV' = ~DEV
  /\ UNCHANGED <<lastDev, lastProd, notPathVars>>

PathOff == DEV = FALSE /\ lastDev = NoCall /\ lastProd = NoCall

PathInit == DEV \in BOOLEAN /\ lastDev = NoCall /\ lastProd = NoCall

PathNext ==
  \/ CallGetImagePath
  \/ CallGetOptimizedImagePath
  \/ ReapplyGetImagePath
  \/ ReapplyGetOptimizedImagePath
  \/ SwitchBuild

-----------------------------------------------------------------------------
(* OptimizedImage.tsx *)
Undefined == <<"undefined">>
ImgSrcs == {<<>>, <<"a">>, <<"/", "a">>, <<"/", "b">>}
FallbackSrcs == ImgSrcs \cup {Undefined}

\* JavaScript truthiness of an optional string
Truthy(s) == s # Undefined /\ s # <<>>

\* imageValidation.ts: createBluePlaceholder returns canvas.toDataURL()
createBluePlaceholder == <<"data:image/png">>

\* const finalSrc = hasError && fallbackSrc ? ... : optimizedSrc
FinalSrc_IgnoresError(s, fb, err) == getOptimizedImagePath(s)

FinalSrc(s, fb, err) ==
  LET optimizedSrc == getOptimizedImagePath(s)
  IN  IF err /\ Truthy(fb) THEN getOptimizedImagePath(fb) ELSE optimizedSrc

\* if (fallbackSrc && !hasError) return, hasError being the value of the
\* render whose handler runs
UseFallback_AfterSetHasError(fb, err) == Truthy(fb) /\ err

UseFallback(fb, err) == Truthy(fb) /\ ~err

\* onLoad?.()
onLoadInvocations(supplied) == IF supplied THEN 1 ELSE 0

\* onError?.(), before the fallback decision
onErrorInvocations_AfterFallbackCheck(supplied, fb, err) ==
  IF supplied /\ ~UseFallback(fb, err) THEN 1 ELSE 0

onErrorInvocations(supplied, fb, err) == IF supplied THEN 1 ELSE 0

\* setIsLoading(false) in both handlers
IsLoadingAfterEvent_Kept(cur) == cur

IsLoadingAfterEvent(cur) == FALSE

\* React commits a render: the img's src attribute is written only when
\* finalSrc differs from the one of the previous render, and a written src
\* starts a new fetch. dom and status are the element's src and fetch status
\* as the event handler left them.
Commit(final, dom, status) ==
  /\ renderedSrc' = final
  /\ IF final # renderedSrc
     THEN domSrc' = final /\ imgStatus' = "loading"
     ELSE domSrc' = dom /\ imgStatus' = status

EventsLeft == loadEvents + errorEvents < MaxEvents

\* the img element fires load: handleImageLoad, then the re-render
handleImageLoad ==
  /\ imgStatus = "loading"
  /\ EventsLeft
  /\ loadEvents' = loadEvents + 1
  /\ isLoading' = IsLoadingAfterEvent(isLoading)
  /\ onLoadCalls' = onLoadCalls + onLoadInvocations(hasOnLoad)
  /\ Commit(FinalSrc(src, fallbackSrc, hasError), domSrc, "loaded")
  /\ UNCHANGED <<imagePropVars, hasError, errorEvents, onErrorCalls, blueWrites>>
  /\ UNCHANGED notImageVars

\* the img element fires error: handleImageErrorEvent (with handleImageError
\* of imageValidation.ts when the fallback is not used), then the re-render.
\* The blue placeholder is a data URL of a canvas and does not fail.
handleImageErrorEvent ==
  /\ imgStatus = "loading"
  /\ domSrc # createBluePlaceholder
  /\ EventsLeft
  /\ errorEvents' = errorEvents + 1
  /\ hasError' = TRUE
  /\ isLoading' = IsLoadingAfterEvent(isLoading)
  /\ onErrorCalls' = onErrorCalls + onErrorInvocations(hasOnError, fallbackSrc, hasError)
  /\ IF UseFallback(fallbackSrc, hasError)
     THEN /\ blueWrites' = blueWrites
          /\ Commit(FinalSrc(src, fallbackSrc, TRUE), domSrc, "failed")
     ELSE /\ blueWrites' = blueWrites + 1
          /\ Commit(FinalSrc(src, fallbackSrc, TRUE), createBluePlaceholder, "loading")
  /\ UNCHANGED <<imagePropVars, loadEvents, onLoadCalls>>
  /\ UNCHANGED notImageVars

\* the parent renders the mounted component with other src / fallbackSrc props
Rerender ==
  \E s \in ImgSrcs, fb \in FallbackSrcs :
    /\ <<s, fb>> # <<src, fallbackSrc>>
    /\ src' = s
    /\ fallbackSrc' = fb
    /\ Commit(FinalSrc(s, fb, hasError), domSrc, imgStatus)
    /\ UNCHANGED <<hasOnLoad, hasOnError, hasError, isLoading, loadEvents,
                   errorEvents, onLoadCalls, onErrorCalls, blueWrites>>
    /\ UNCHANGED notImageVars

ImageOff ==
  /\ src = <<>> /\ fallbackSrc = Undefined
  /\ hasOnLoad = FALSE /\ hasOnError = FALSE
  /\ hasError = FALSE /\ isLoading = FALSE
  /\ renderedSrc = <<>> /\ domSrc = <<>> /\ imgStatus = "off"
  /\ loadEvents = 0 /\ errorEvents = 0
  /\ onLoadCalls = 0 /\ onErrorCalls = 0 /\ blueWrites = 0

\* the component is mounted: the first render
ImageInit ==
  /\ src \in ImgSrcs
  /\ fallbackSrc \in FallbackSrcs
  /\ hasOnLoad \in BOOLEAN
  /\ hasOnError \in BOOLEAN
  /\ hasError = FALSE
  /\ isLoading = TRUE
  /\ renderedSrc = FinalSrc(src, fallbackSrc, FALSE)
  /\ domSrc = renderedSrc
  /\ imgStatus = "loading"
  /\ loadEvents = 0 /\ errorEvents = 0
  /\ onLoadCalls = 0 /\ onErrorCalls = 0 /\ blueWrites = 0

ImageNext == handleImageLoad \/ handleImageErrorEvent \/ Rerender

ImageEventsNext == handleImageLoad \/ handleImageErrorEvent

-----------------------------------------------------------------------------
(* randomImages.ts: the image pool and getRandomImageSet *)
Pic(name) == <<"/", "images", "/", "randomPictures", "/", name>>

baseImages == <<
  Pic("UX4.jpg"),
  Pic("UXteacher.png"),
  Pic("children_holding_sign_in_streets.jpg"),
  Pic("frontalgraduation.jpg"),
  Pic("girlstaslkingUX.jpg"),
  Pic("graduation.jpg"),
  Pic("graduations.jpg"),
  Pic("graduationspeaking.jpg"),
  Pic("group_girls.jpg"),
  Pic("groupofgirlsentrance.jpg"),
  Pic("UX4.jpg"),
  Pic("groupworkstudents.jpg"),
  Pic("happystudentscasual.jpg"),
  Pic("maingraduationpic.jpg"),
  Pic("maingraduationpic.jpg"),
  Pic("mave_peter.jpg"),
  Pic("mireiotalking.jpg"),
  Pic("peterTalking.jpg"),
  Pic("peterblackboard.jpg"),
  Pic("peterblackboard.jpg"),
  Pic("petertalkingtostudentscoloful.jpg"),
  Pic("petertalkingtostudentscoloful.jpg"),
  Pic("redclothingStudents.jpg"),
  Pic("redstudentgrouplesson.jpg"),
  Pic("studentgroupguys.jpg"),
  Pic("studentpresentin.jpg"),
  Pic("studentpresenting.jpg"),
  Pic("studentsBackcoding.jpg"),
  Pic("studentsblueclothing.jpg"),
  Pic("studentsBackcoding.jpg"),
  Pic("studentslistening.jpg"),
  Pic("studentslisteningfrontal.jpg"),
  Pic("uXstudents.jpg"),
  Pic("whiteLady.jpg") >>

randomImages == [k \in DOMAIN baseImages |-> getImagePath(baseImages[k])]

\* Array.prototype.splice(index, 1): the array without the element at index
\* (1-based here)
splice(arr, index) ==
  [k \in 1..(Len(arr) - 1) |-> IF k < index THEN arr[k] ELSE arr[k + 1]]

\* one iteration of the for loop; randomIndex is
\* Math.floor(Math.random() * available.length), 1-based here
selectRandom ==
  /\ randomPc = "loop"
  /\ loopIndex < count /\ Len(available) > 0
  /\ \E randomIndex \in 1..Len(available) :
       /\ selected' = Append(selected, available[randomIndex])
       /\ available' = splice(available, randomIndex)
  /\ loopIndex' = loopIndex + 1
  /\ UNCHANGED <<count, randomPc>>
  /\ UNCHANGED notRandomVars

\* the loop condition fails: return selected
returnSelected ==
  /\ randomPc = "loop"
  /\ ~(loopIndex < count /\ Len(available) > 0)
  /\ randomPc' = "returned"
  /\ UNCHANGED <<count, selected, available, loopIndex>>
  /\ UNCHANGED notRandomVars

RandomOff ==
  /\ count = 0 /\ selected = <<>> /\ available = <<>>
  /\ loopIndex = 0 /\ randomPc = "off"

\* getRandomImageSet(count) is called
RandomInit ==
  /\ count \in 0..MaxCount
  /\ selected = <<>>
  /\ available = randomImages
  /\ loopIndex = 0
  /\ randomPc = "loop"

RandomNext == selectRandom \/ returnSelected

-----------------------------------------------------------------------------
(* imageValidation.ts: preloadImage / preloadImages *)
PreloadSrcs == {<<"/", "a">>, <<"/", "b">>}

AllLoaded(st) == \A k \in DOMAIN st : st[k] = "loaded"
SomeFailed(st) == \E k \in DOMAIN st : st[k] = "failed"

\* a continuation of the async function is queued as a microtask: it runs
\* before the browser dispatches the next load or error event
MicrotaskPending == preloadPromise = "pending" /\ promiseAll # "pending"

\* img.onload = () => resolve(): Promise.all fulfils once every promise has
promiseAllAfterLoad(all, st) ==
  IF all = "pending" /\ AllLoaded(st) THEN "fulfilled" ELSE all

\* img.onerror = () => reject(...): Promise.all rejects with the first rejection
promiseAllAfterError(all) ==
  IF all = "pending" THEN "rejected" ELSE all

imgOnload ==
  \E k \in DOMAIN imgState :
    /\ preloadPromise # "notCalled" /\ ~MicrotaskPending
    /\ imgState[k] = "pending"
    /\ imgState' = [imgState EXCEPT ![k] = "loaded"]
    /\ promiseAll' = promiseAllAfterLoad(promiseAll, imgState')
    /\ UNCHANGED <<imagePaths, rejectReason, preloadPromise, consoleLog>>
    /\ UNCHANGED notPreloadVars

imgOnerror ==
  \E k \in DOMAIN imgState :
    /\ preloadPromise # "notCalled" /\ ~MicrotaskPending
    /\ imgState[k] = "pending"
    /\ imgState' = [imgState EXCEPT ![k] = "failed"]
    /\ promiseAll' = promiseAllAfterError(promiseAll)
    /\ rejectReason' = IF promiseAll = "pending" THEN imagePaths[k] ELSE rejectReason
    /\ UNCHANGED <<imagePaths, preloadPromise, consoleLog>>
    /\ UNCHANGED notPreloadVars

\* preloadImages(imagePaths) runs up to its await: every Image is created
\* and given its src; the promise of the async function is returned pending
callPreloadImages ==
  /\ preloadPromise = "notCalled"
  /\ imgState' = [k \in DOMAIN imagePaths |-> "pending"]
  /\ promiseAll' = IF imagePaths = <<>> THEN "fulfilled" ELSE "pending"
  /\ preloadPromise' = "pending"
  /\ UNCHANGED <<imagePaths, rejectReason, consoleLog>>
  /\ UNCHANGED notPreloadVars

\* how the async function settles its promise once Promise.all has settled:
\* the catch block swallows the rejection
settleWithoutCatch(all) == all

settle(all) == "fulfilled"

\* the rest of preloadImages after the await
resumePreloadImages ==
  /\ MicrotaskPending
  /\ consoleLog' = IF promiseAll = "fulfilled"
                   THEN Append(consoleLog, <<"log", "All critical images preloaded successfully">>)
                   ELSE Append(consoleLog, <<"error", "Failed to preload some images", rejectReason>>)
  /\ preloadPromise' = settle(promiseAll)
  /\ UNCHANGED <<imagePaths, imgState, promiseAll, rejectReason>>
  /\ UNCHANGED notPreloadVars

PreloadOff ==
  /\ imagePaths = <<>> /\ imgState = <<>> /\ promiseAll = "off"
  /\ rejectReason = <<>> /\ preloadPromise = "off" /\ consoleLog = <<>>

PreloadInit ==
  /\ imagePaths \in SeqsUpTo(PreloadSrcs, MaxImages)
  /\ imgState = <<>>
  /\ promiseAll = "pending"
  /\ rejectReason = <<>>
  /\ preloadPromise = "notCalled"
  /\ consoleLog = <<>>

PreloadNext == callPreloadImages \/ imgOnload \/ imgOnerror \/ resumePreloadImages

-----------------------------------------------------------------------------
(* scripts/validate-images.js *)

\* the string literals the scanned sources hold: "/images/a", "images/a",
\* "//images/a", "a/images/b" and "/images" (which names a directory)
Literals == {
  <<"/", "images", "/", "a">>,
  <<"images", "/", "a">>,
  <<"/", "/", "images", "/", "a">>,
  <<"a", "/", "images", "/", "b">>,
  <<"/", "images">> }

\* a place of a source file where a quoted literal follows getImagePath( or src=
Sites == [context : {"getImagePath(", "src="}, literal : Literals]

\* what can exist under public/: each entry is a sequence of segment names,
\* and an entry exists only inside an existing directory
PublicEntries == {<<"images">>, <<"images", "a">>}
PublicDirs ==
  {d \in SUBSET PublicEntries :
     \A e \in d : Len(e) > 1 => SubSeq(e, 1, Len(e) - 1) \in d}

startsWithSeq(s, prefix) ==
  Len(s) >= Len(prefix) /\ SubSeq(s, 1, Len(prefix)) = prefix

includes(s, sub) ==
  \E k \in 0..(Len(s) - Len(sub)) : SubSeq(s, k + 1, k + Len(sub)) = sub

has(refs, r) == \E k \in DOMAIN refs : refs[k] = r

\* Set.prototype.add: insertion order, no duplicates
add(refs, r) == IF has(refs, r) THEN refs ELSE Append(refs, r)

\* scanFile on the content of one readable file: the matches of the two
\* regular expressions, the getImagePath calls first
RECURSIVE addAll(_, _)
addAll(refs, lits) ==
  IF lits = <<>> THEN refs ELSE addAll(add(refs, Head(lits)), Tail(lits))

IsGetImagePathMatch(site) == site.context = "getImagePath("
IsSrcMatch(site) ==
  /\ site.context = "src="
  /\ includes(site.literal, <<"/", "images", "/">>)
  /\ startsWithSeq(site.literal, <<"/", "images", "/">>)

literalsOf(sites) == [k \in DOMAIN sites |-> sites[k].literal]

scanFileRefs(refs, content) ==
  LET getImagePathMatches == SelectSeq(content, IsGetImagePathMatch)
      srcMatches == SelectSeq(content, IsSrcMatch)
  IN  addAll(addAll(refs, literalsOf(getImagePathMatches)), literalsOf(srcMatches))

\* imagePath.replace(/^\//, '')
stripLeadingSlash(imagePath) ==
  IF startsWith(imagePath, "/") THEN Tail(imagePath) ELSE imagePath

\* path.join(publicDir, rest), as the segments below public/: path.join
\* drops empty segments
IsSegment(atom) == atom # "/"
fullPath(imagePath) == SelectSeq(stripLeadingSlash(imagePath), IsSegment)

\* fs.existsSync: true for any existing entry, a regular file or a directory,
\* and for public/ itself
existsSync(entries, segments) == segments = <<>> \/ segments \in entries

validateImages_Inverted(refs, entries) ==
  LET Exists(imagePath) == existsSync(entries, fullPath(imagePath))
      Absent(imagePath) == ~Exists(imagePath)
  IN  [missing |-> SelectSeq(refs, Exists), existing |-> SelectSeq(refs, Absent)]

validateImages(refs, entries) ==
  LET Exists(imagePath) == existsSync(entries, fullPath(imagePath))
      Absent(imagePath) == ~Exists(imagePath)
  IN  [missing |-> SelectSeq(refs, Absent), existing |-> SelectSeq(refs, Exists)]

\* generateReport: the three counts printed, and the value returned
reportCounts(refs, v) ==
  [printed |-> TRUE, total |-> Len(refs),
   existing |-> Len(v.existing), missing |-> Len(v.missing)]

isReady_WhenSomeExist(v) == Len(v.existing) > 0

isReady(v) == Len(v.missing) = 0

exitStatus(ready) == IF ready THEN 0 ELSE 1

NoReport == [printed |-> FALSE]
NoValidation == [missing |-> <<>>, existing |-> <<>>]

\* findImageReferences comes across one more source file (.ts, .tsx, .js,
\* .jsx); a file that cannot be read is skipped with a warning
scanFile ==
  /\ mainPc = "scan"
  /\ filesScanned < MaxFiles
  /\ \E readable \in BOOLEAN, content \in SeqsUpTo(Sites, MaxMatches) :
       imageRefs' = IF readable THEN scanFileRefs(imageRefs, content) ELSE imageRefs
  /\ filesScanned' = filesScanned + 1
  /\ UNCHANGED <<mainPc, publicDir, validation, report, threw, exitCode>>
  /\ UNCHANGED notScriptVars

\* the scan is over: validateImages(imageRefs)
validate ==
  /\ mainPc = "scan"
  /\ validation' = validateImages(imageRefs, publicDir)
  /\ mainPc' = "report"
  /\ UNCHANGED <<filesScanned, imageRefs, publicDir, report, threw, exitCode>>
  /\ UNCHANGED notScriptVars

\* generateReport(imageRefs, validation) and process.exit(isReady ? 0 : 1)
reportAndExit ==
  /\ mainPc = "report"
  /\ report' = reportCounts(imageRefs, validation)
  /\ exitCode' = exitStatus(isReady(validation))
  /\ mainPc' = "exited"
  /\ UNCHANGED <<filesScanned, imageRefs, publicDir, validation, threw>>
  /\ UNCHANGED notScriptVars

\* an exception escapes inside the try block: the catch block of main
catchAndExit ==
  /\ mainPc \in {"scan", "report"}
  /\ threw' = TRUE
  /\ exitCode' = 1
  /\ mainPc' = "exited"
  /\ UNCHANGED <<filesScanned, imageRefs, publicDir, validation, report>>
  /\ UNCHANGED notScriptVars

ScriptOff ==
  /\ mainPc = "off" /\ filesScanned = 0 /\ imageRefs = <<>>
  /\ publicDir = {} /\ validation = NoValidation /\ report = NoReport
  /\ threw = FALSE /\ exitCode = 0

\* main() starts
ScriptInit ==
  /\ mainPc = "scan"
  /\ filesScanned = 0
  /\ imageRefs = <<>>
  /\ publicDir \in PublicDirs
  /\ validation = NoValidation
  /\ report = NoReport
  /\ threw = FALSE
  /\ exitCode = 0

ScriptNext == scanFile \/ validate \/ reportAndExit \/ catchAndExit

-----------------------------------------------------------------------------
(* Specifications *)
InitPath == PathInit /\ ImageOff /\ RandomOff /\ PreloadOff /\ ScriptOff

SpecPath ==
  /\ InitPath
  /\ [][PathNext]_vars

\* a mounted OptimizedImage whose parent may re-render it with other props
InitImage == ImageInit /\ PathOff /\ RandomOff /\ PreloadOff /\ ScriptOff

SpecImage ==
  /\ InitImage
  /\ [][ImageNext]_vars

\* a mounted OptimizedImage whose props stay as mounted: only the img
\* element's load and error events occur
SpecImageEvents ==
  /\ InitImage
  /\ [][ImageEventsNext]_vars

\* one call of getRandomImageSet
InitRandom == RandomInit /\ PathOff /\ ImageOff /\ PreloadOff /\ ScriptOff

SpecRandom ==
  /\ InitRandom
  /\ [][RandomNext]_vars

\* one call of preloadImages and the events of its Image objects
InitPreload == PreloadInit /\ PathOff /\ ImageOff /\ RandomOff /\ ScriptOff

SpecPreload ==
  /\ InitPreload
  /\ [][PreloadNext]_vars

\* one run of the validation script
InitScript == ScriptInit /\ PathOff /\ ImageOff /\ RandomOff /\ PreloadOff

SpecScript ==
  /\ InitScript
  /\ [][ScriptNext]_vars

-----------------------------------------------------------------------------
SamePathInBothBuilds ==
  /\ lastDev # NoCall /\ lastProd # NoCall
  /\ lastDev.fn = lastProd.fn
  /\ lastDev.path = lastProd.path

RecordedCalls == {lastDev, lastProd} \ {NoCall}

\* C11: path normalisation is consistent and idempotent: getImagePath and
\* getOptimizedImagePath return the same value for the same path; the value
\* starts with "/", equals the input when the input starts with "/" and is
\* "/" followed by the input otherwise; and either function applied to a
\* result (its own or the other's) returns that result unchanged.
C11_NormalisationConsistentIdempotent ==
  /\ \A c \in RecordedCalls :
       /\ startsWith(c.result, "/")
       /\ startsWith(c.path, "/") => c.result = c.path
       /\ ~startsWith(c.path, "/") => c.result = <<"/">> \o c.path
  /\ \A c, d \in RecordedCalls :
       /\ c.path = d.path => c.result = d.result
       /\ c.path = d.result => c.result = c.path

C11_Witness ==
  /\ lastDev # NoCall /\ lastProd # NoCall
  /\ lastDev.fn = "getImagePath"
  /\ ~startsWith(lastDev.path, "/") /\ lastDev.path # <<>>
  /\ lastProd.fn = "getOptimizedImagePath"
  /\ lastProd.path = lastDev.result
  /\ lastProd.result = lastDev.result
  /\ Len(lastProd.result) = MaxPathLen + 1

-----------------------------------------------------------------------------
(* OptimizedImage: the claims *)
ErrorEventFires == errorEvents' = errorEvents + 1
NoEventYet == loadEvents = 0 /\ errorEvents = 0

\* C3: when the primary source fires an error event (the first error:
\* hasError is still false) and a fallbackSrc is provided (a non-empty
\* string), the source rendered next is the normalized fallbackSrc and the
\* blue placeholder is not written to the element by that event.
C3_FirstErrorRendersFallback ==
  [][(ErrorEventFires /\ ~hasError /\ Truthy(fallbackSrc)) =>
       /\ renderedSrc' = getOptimizedImagePath(fallbackSrc)
       /\ domSrc' = getOptimizedImagePath(fallbackSrc)
       /\ domSrc' # createBluePlaceholder
       /\ blueWrites' = blueWrites]_vars

C3_Witness ==
  /\ errorEvents = 1 /\ loadEvents = 0
  /\ hasError
  /\ Truthy(fallbackSrc)
  /\ domSrc = getOptimizedImagePath(fallbackSrc)
  /\ domSrc # getOptimizedImagePath(src)
  /\ imgStatus = "loading"
  /\ blueWrites = 0

\* C4 (as stated): whenever the source currently assigned to the img element
\* (primary or fallback) has fired neither its load nor its error event, the
\* loading placeholder is displayed.
C4_PlaceholderWhileAnySourceLoads ==
  (imgStatus = "loading" /\ domSrc # createBluePlaceholder) => isLoading

\* C4 (amended): the loading placeholder is displayed exactly until the img
\* element fires its first load or error event: it is displayed while no
\* event has fired since the mount and never afterwards, so not while the
\* fallback source, the blue placeholder or a later src is loading.
C4_PlaceholderUntilFirstEvent ==
  isLoading <=> NoEventYet

C4_Witness ==
  /\ imgStatus = "loading"
  /\ NoEventYet
  /\ isLoading
  /\ renderedSrc = getOptimizedImagePath(src)
  /\ domSrc = renderedSrc

\* C5: every error event of the img element invokes a supplied onError
\* exactly once (also when the fallback source fails, so that onError can
\* run twice), every load event invokes a supplied onLoad exactly once, and
\* without a callback the event is still handled (the state is updated).
C5_CallbacksOncePerEvent ==
  /\ onErrorCalls = (IF hasOnError THEN errorEvents ELSE 0)
  /\ onLoadCalls = (IF hasOnLoad THEN loadEvents ELSE 0)
  /\ errorEvents > 0 => hasError
  /\ ~NoEventYet => ~isLoading

C5_Witness ==
  /\ hasOnError /\ ~hasOnLoad
  /\ Truthy(fallbackSrc)
  /\ errorEvents = 2 /\ onErrorCalls = 2
  /\ loadEvents = 1 /\ onLoadCalls = 0
  /\ domSrc = createBluePlaceholder /\ imgStatus = "loaded"

\* C8: after any sequence of load and error events the component never
\* stays on a source that has failed: every error event makes the element
\* load another source, the fallback or the generated blue placeholder.
C8_NeverStaysOnFailedSource ==
  imgStatus # "failed"

\* C10: isLoading starts true and, once false, never becomes true again;
\* hasError starts false and, once true, never becomes false again, also
\* when the src prop changes; so after a failure every render with a
\* fallbackSrc provided uses the fallback source, whatever the src prop.
C10_FlagsMonotone ==
  /\ (isLoading = TRUE /\ hasError = FALSE)
  /\ [][(~isLoading => ~isLoading') /\ (hasError => hasError')]_vars
  /\ [][(src' # src) => (isLoading' = isLoading /\ hasError' = hasError)]_vars
  /\ [](hasError /\ Truthy(fallbackSrc) =>
          renderedSrc = getOptimizedImagePath(fallbackSrc))

C10_Witness ==
  /\ hasError /\ ~isLoading
  /\ Truthy(fallbackSrc)
  /\ errorEvents = 1 /\ loadEvents = 1
  /\ imgStatus = "loaded"
  /\ domSrc = getOptimizedImagePath(fallbackSrc)
  /\ getOptimizedImagePath(src) # getOptimizedImagePath(fallbackSrc)

-----------------------------------------------------------------------------
(* getRandomImageSet: the claim *)

\* C7: for every count, the list getRandomImageSet(count) returns contains
\* no duplicates: no image path occurs in it more than once.
C7_NoDuplicates ==
  randomPc = "returned" =>
    \A j, k \in DOMAIN selected : j # k => selected[j] # selected[k]

-----------------------------------------------------------------------------
(* preloadImages: the claim *)
SuccessLine == <<"log", "All critical images preloaded successfully">>
Logged(line) == \E k \in DOMAIN consoleLog : consoleLog[k] = line

\* C9: the promise preloadImages returns never rejects, whatever the order
\* of the images' load and error events: it fulfils once all images have
\* loaded or once the first image has failed, and the success message is
\* logged only if every image fired its load event and none an error event.
C9_PreloadNeverRejects ==
  /\ preloadPromise # "rejected"
  /\ preloadPromise = "fulfilled" => (AllLoaded(imgState) \/ SomeFailed(imgState))
  /\ (preloadPromise = "pending" /\ ~MicrotaskPending) =>
        ~(AllLoaded(imgState) \/ SomeFailed(imgState))
  /\ Logged(SuccessLine) => (AllLoaded(imgState) /\ ~SomeFailed(imgState))
  /\ (preloadPromise = "fulfilled" /\ SomeFailed(imgState)) =>
        (~Logged(SuccessLine) /\ Len(consoleLog) = 1)

C9_Witness ==
  /\ Len(imagePaths) = 3
  /\ imgState = <<"loaded", "failed", "failed">>
  /\ rejectReason = imagePaths[3]
  /\ imagePaths[3] # imagePaths[2]
  /\ preloadPromise = "fulfilled"
  /\ ~Logged(SuccessLine)

-----------------------------------------------------------------------------
(* validate-images.js: the claims *)
Occurrences(seq, r) == Cardinality({k \in DOMAIN seq : seq[k] = r})
RefExists(r) == existsSync(publicDir, fullPath(r))
Validated == mainPc = "report" \/ report.printed

\* C1: main exits with status 1 if at least one referenced path is missing
\* under the public directory or if the validation throws, and with status
\* 0 otherwise; so status 0 implies that every path findImageReferences
\* returned resolved to an existing file of the public directory (existing
\* as fs.existsSync has it: a directory is an existing file too).
C1_ExitStatus ==
  mainPc = "exited" =>
    /\ exitCode \in {0, 1}
    /\ exitCode = 1 <=> (threw \/ \E k \in DOMAIN imageRefs : ~RefExists(imageRefs[k]))
    /\ exitCode = 0 => \A k \in DOMAIN imageRefs : RefExists(imageRefs[k])

C1_Witness ==
  /\ mainPc = "exited" /\ exitCode = 0 /\ ~threw
  /\ report.printed
  /\ Len(imageRefs) = 3
  /\ has(imageRefs, <<"images", "/", "a">>)
  /\ has(imageRefs, <<"/", "/", "images", "/", "a">>)

\* C2: validateImages puts every reference in exactly one of existing and
\* missing, in existing exactly when public/<path without one leading
\* slash> exists, so the found and missing counts generateReport prints add
\* up to the printed total of referenced images.
C2_ExistingMissingPartition ==
  /\ Validated =>
        \A r \in Literals :
          /\ Occurrences(validation.existing, r) + Occurrences(validation.missing, r)
               = Occurrences(imageRefs, r)
          /\ has(validation.existing, r) => RefExists(r)
          /\ has(validation.missing, r) => ~RefExists(r)
  /\ report.printed =>
        /\ report.total = Len(imageRefs)
        /\ report.existing + report.missing = report.total

C2_Witness ==
  /\ report.printed
  /\ report.total = 4 /\ report.existing = 3 /\ report.missing = 1
  /\ has(validation.existing, <<"/", "/", "images", "/", "a">>)
  /\ has(validation.existing, <<"images", "/", "a">>)
  /\ has(validation.missing, <<"a", "/", "images", "/", "b">>)

=============================================================================
